---- MODULE Spec2Model ----
(***************************************************************************)
(* Cellar pump controller (src/src/main.cpp): a single control loop that   *)
(* polls a debounced preset button, runs the pump on/off state machine,    *)
(* samples a sensor and refreshes an LCD, all timed against millis().      *)
(*                                                                         *)
(* Time is counted in model ticks on a counter that wraps at WRAP (2^32 ms  *)
(* in the build).  The duration constants of main.cpp are scaled down to   *)
(* ticks so that every timer can expire and the clock can wrap inside a    *)
(* finite state space.  The scaling keeps what the timers owe to each      *)
(* other: the order 2 ms delay < DEBOUNCE_MS < DISPLAY_UPDATE_INTERVAL <   *)
(* SENSOR_READ_INTERVAL = OVERLAY_DISPLAY_MS <= on duration <= cycle       *)
(* intervals < WRAP; a press and its release (2 * DEBOUNCE_MS) fit into    *)
(* the overlay time and into every cycle interval; the default cycle       *)
(* interval differs from that of preset 0; and a loop that keeps iterating *)
(* cannot step over the part of the clock's range in which an interval is  *)
(* seen as elapsed.                                                        *)
(***************************************************************************)
EXTENDS Integers, Sequences, FiniteSets, TLC

\* ---------------------------------------------------------------------------
\* Bounds of the model
\* ---------------------------------------------------------------------------

\* the clock counts modulo WRAP; every duration below is smaller
WRAP == 8

\* largest number of ticks that pass between two handler runs
MaxDelta == 1

\* largest number of ticks that pass during one delay(2)
MaxLcdDelay == 0

Clock == 0 .. (WRAP - 1)

Deltas == 0 .. MaxDelta

LcdDelays == 0 .. MaxLcdDelay

\* ---------------------------------------------------------------------------
\* Configuration of main.cpp, durations in ticks
\* ---------------------------------------------------------------------------

LOW == FALSE

HIGH == TRUE

DEFAULT_PUMP_ON_DURATION == 3

DEFAULT_PUMP_CYCLE_INTERVAL == 4

DISPLAY_UPDATE_INTERVAL == 2

SENSOR_READ_INTERVAL == 3

GREEN_THRESHOLD == 4

DEBOUNCE_MS == 1

OVERLAY_DISPLAY_MS == 3

\* the catalog keeps the order of the cycle intervals of main.cpp
\* (30min, 2h, 6h, 1day, 1min, 4min, 10min), neighbours sharing a tick count
PRESETS ==
  (0 :> [onDuration |-> 3, cycleInterval |-> 5, label |-> "1: 60s / 30min"]) @@
  (1 :> [onDuration |-> 3, cycleInterval |-> 5, label |-> "2: 60s / 2h"]) @@
  (2 :> [onDuration |-> 3, cycleInterval |-> 5, label |-> "3: 60s / 6h"]) @@
  (3 :> [onDuration |-> 3, cycleInterval |-> 5, label |-> "4: 60s / 1day"]) @@
  (4 :> [onDuration |-> 3, cycleInterval |-> 3, label |-> "5: 60s / 1min"]) @@
  (5 :> [onDuration |-> 3, cycleInterval |-> 4, label |-> "6: 60s / 4min"]) @@
  (6 :> [onDuration |-> 3, cycleInterval |-> 4, label |-> "7: 60s / 10min"])

PRESET_COUNT == Cardinality(DOMAIN PRESETS)

EEPROM_ADDR_MAGIC == 0

EEPROM_ADDR_PRESET == 1

EEPROM_MAGIC == 199

\* bytes an EEPROM cell may hold at the first power-on
InitMagicBytes == {EEPROM_MAGIC, 255}

InitPresetBytes == {0, 3, 6, 7, 255}

\* outcomes of dht.readTempAndHumidity: a failure, or <<humidity, temperature>>
\* in tenths of a unit
SensorFail == <<>>

SensorOutcomes == {SensorFail, <<650, 123>>, <<702, 98>>}

\* ---------------------------------------------------------------------------
\* State
\* ---------------------------------------------------------------------------

VARIABLES
  millis,             \* the clock read by millis()
  relay,              \* level of RELAY_PIN
  eeprom,             \* the two EEPROM cells
  lcd,                \* what the display shows
  pumpOnDuration, pumpCycleInterval,
  currentPreset, lastButtonState, lastDebounceTime,
  overlayStartTime, overlayShowing,
  stableState,        \* the static local of loop()
  pumpRunning, pumpStartTime, pumpStopTime,
  lastDisplayUpdate, lastSensorRead,
  temperature, humidity,
  phase,              \* "boot" before setup() has run, "run" after
  obs,                \* what the last handler run did to its surroundings
  twin                \* where the last iteration's twins ended (TwinSpec)

vars == <<millis, relay, eeprom, lcd, pumpOnDuration, pumpCycleInterval,
          currentPreset, lastButtonState, lastDebounceTime, overlayStartTime,
          overlayShowing, stableState, pumpRunning, pumpStartTime,
          pumpStopTime, lastDisplayUpdate, lastSensorRead, temperature,
          humidity, phase, obs, twin>>

\* wraparound-safe unsigned subtraction a - b
Sub(a, b) == (a - b + WRAP) % WRAP

Add(a, b) == (a + b) % WRAP

\* nothing observed: no handler has run since power-on
NoObs == [handler |-> "none", now |-> 0, tickNow |-> 0,
          tickWasRunning |-> FALSE, press |-> FALSE, stableChanged |-> FALSE,
          relayWrites |-> <<>>, log |-> <<>>, sensor |-> "none",
          render |-> "none"]

BlankLcd == [l1 |-> "", l2 |-> "", rgb |-> <<0, 0, 0>>]

\* the controller as one record: the globals of main.cpp and the devices
Cur == [millis |-> millis, relay |-> relay, eeprom |-> eeprom, lcd |-> lcd,
        pumpOnDuration |-> pumpOnDuration,
        pumpCycleInterval |-> pumpCycleInterval,
        currentPreset |-> currentPreset,
        lastButtonState |-> lastButtonState,
        lastDebounceTime |-> lastDebounceTime,
        overlayStartTime |-> overlayStartTime,
        overlayShowing |-> overlayShowing,
        stableState |-> stableState,
        pumpRunning |-> pumpRunning, pumpStartTime |-> pumpStartTime,
        pumpStopTime |-> pumpStopTime,
        lastDisplayUpdate |-> lastDisplayUpdate,
        lastSensorRead |-> lastSensorRead,
        temperature |-> temperature, humidity |-> humidity,
        obs |-> obs]

Commit(n) ==
  /\ millis' = n.millis
  /\ relay' = n.relay
  /\ eeprom' = n.eeprom
  /\ lcd' = n.lcd
  /\ pumpOnDuration' = n.pumpOnDuration
  /\ pumpCycleInterval' = n.pumpCycleInterval
  /\ currentPreset' = n.currentPreset
  /\ lastButtonState' = n.lastButtonState
  /\ lastDebounceTime' = n.lastDebounceTime
  /\ overlayStartTime' = n.overlayStartTime
  /\ overlayShowing' = n.overlayShowing
  /\ stableState' = n.stableState
  /\ pumpRunning' = n.pumpRunning
  /\ pumpStartTime' = n.pumpStartTime
  /\ pumpStopTime' = n.pumpStopTime
  /\ lastDisplayUpdate' = n.lastDisplayUpdate
  /\ lastSensorRead' = n.lastSensorRead
  /\ temperature' = n.temperature
  /\ humidity' = n.humidity
  /\ obs' = n.obs

\* the globals as their initialisers leave them, around the devices as they
\* are at power-on: clock at zero, relay pin low, display blank
PowerOn(e) ==
  [millis |-> 0, relay |-> LOW, eeprom |-> e, lcd |-> BlankLcd,
   pumpOnDuration |-> DEFAULT_PUMP_ON_DURATION,
   pumpCycleInterval |-> DEFAULT_PUMP_CYCLE_INTERVAL,
   currentPreset |-> 0, lastButtonState |-> LOW, lastDebounceTime |-> 0,
   overlayStartTime |-> 0, overlayShowing |-> FALSE, stableState |-> LOW,
   pumpRunning |-> FALSE, pumpStartTime |-> 0, pumpStopTime |-> 0,
   lastDisplayUpdate |-> 0, lastSensorRead |-> 0,
   temperature |-> 0, humidity |-> 0,
   obs |-> NoObs]

\* ---------------------------------------------------------------------------
\* Devices
\* ---------------------------------------------------------------------------

digitalWrite(s, who, level) ==
  [s EXCEPT !.relay = level,
            !.obs.relayWrites = Append(@, <<who, level>>)]

SerialPrint(s, line) == [s EXCEPT !.obs.log = Append(@, line)]

delay(s, ticks) == [s EXCEPT !.millis = Add(@, ticks)]

\* ---------------------------------------------------------------------------
\* Presets and their storage
\* ---------------------------------------------------------------------------

applyPreset(s, idx0) ==
  LET idx == IF idx0 >= PRESET_COUNT THEN 0 ELSE idx0
  IN [s EXCEPT !.currentPreset = idx,
               !.pumpOnDuration = PRESETS[idx].onDuration,
               !.pumpCycleInterval = PRESETS[idx].cycleInterval]

\* savePresetToEEPROM that stores the index and not the marker
savePresetToEEPROM_noMagic(s, idx) ==
  [s EXCEPT !.eeprom = [@ EXCEPT ![EEPROM_ADDR_PRESET] = idx]]

savePresetToEEPROM(s, idx) ==
  [s EXCEPT !.eeprom = [@ EXCEPT ![EEPROM_ADDR_MAGIC] = EEPROM_MAGIC,
                                 ![EEPROM_ADDR_PRESET] = idx]]

\* loadPresetFromEEPROM that reads the index without looking at the marker
loadPresetFromEEPROM_noMarker(s) ==
  LET idx == s.eeprom[EEPROM_ADDR_PRESET]
  IN IF idx < PRESET_COUNT THEN idx ELSE 0

\* loadPresetFromEEPROM that clamps an index beyond the catalog to its end
loadPresetFromEEPROM_clampLast(s) ==
  IF s.eeprom[EEPROM_ADDR_MAGIC] # EEPROM_MAGIC
  THEN 0
  ELSE LET idx == s.eeprom[EEPROM_ADDR_PRESET]
       IN IF idx < PRESET_COUNT THEN idx ELSE PRESET_COUNT - 1

loadPresetFromEEPROM(s) ==
  IF s.eeprom[EEPROM_ADDR_MAGIC] # EEPROM_MAGIC
  THEN 0
  ELSE LET idx == s.eeprom[EEPROM_ADDR_PRESET]
       IN IF idx < PRESET_COUNT THEN idx ELSE 0

\* ---------------------------------------------------------------------------
\* Serial log
\* ---------------------------------------------------------------------------

logPumpOn(s) == SerialPrint(s, <<"Pump ON", s.temperature, s.humidity>>)

logPumpOff(s) == SerialPrint(s, <<"Pump OFF", s.temperature, s.humidity>>)

\* ---------------------------------------------------------------------------
\* Pump / relay control
\* ---------------------------------------------------------------------------

initRelay(s) == digitalWrite(s, "initRelay", LOW)

pumpOn(s) ==
  IF s.pumpRunning
  THEN s
  ELSE LET s1 == digitalWrite(s, "pumpOn", HIGH)
           s2 == [s1 EXCEPT !.pumpRunning = TRUE, !.pumpStartTime = s.millis]
       IN logPumpOn(s2)

\* pumpOff without its early return
pumpOff_unguarded(s) ==
  LET s1 == digitalWrite(s, "pumpOff", LOW)
      s2 == [s1 EXCEPT !.pumpRunning = FALSE, !.pumpStopTime = s.millis]
  IN logPumpOff(s2)

pumpOff(s) ==
  IF ~s.pumpRunning
  THEN s
  ELSE LET s1 == digitalWrite(s, "pumpOff", LOW)
           s2 == [s1 EXCEPT !.pumpRunning = FALSE, !.pumpStopTime = s.millis]
       IN logPumpOff(s2)

\* updatePump with the stop check off by one tick
updatePump_late(s) ==
  LET now == s.millis
  IN IF s.pumpRunning
     THEN IF Sub(now, s.pumpStartTime) > s.pumpOnDuration
          THEN pumpOff(s)
          ELSE s
     ELSE IF Sub(now, s.pumpStopTime) >= s.pumpCycleInterval
          THEN pumpOn(s)
          ELSE s

\* updatePump that waits for the default interval, not the active one
updatePump_default(s) ==
  LET now == s.millis
  IN IF s.pumpRunning
     THEN IF Sub(now, s.pumpStartTime) >= s.pumpOnDuration
          THEN pumpOff(s)
          ELSE s
     ELSE IF Sub(now, s.pumpStopTime) >= DEFAULT_PUMP_CYCLE_INTERVAL
          THEN pumpOn(s)
          ELSE s

\* updatePump that compares the clock with a deadline: not safe at the wrap
updatePump_deadline(s) ==
  LET now == s.millis
  IN IF s.pumpRunning
     THEN IF now >= s.pumpStartTime + s.pumpOnDuration
          THEN pumpOff(s)
          ELSE s
     ELSE IF now >= s.pumpStopTime + s.pumpCycleInterval
          THEN pumpOn(s)
          ELSE s

updatePump(s) ==
  LET now == s.millis
  IN IF s.pumpRunning
     THEN IF Sub(now, s.pumpStartTime) >= s.pumpOnDuration
          THEN pumpOff(s)
          ELSE s
     ELSE IF Sub(now, s.pumpStopTime) >= s.pumpCycleInterval
          THEN pumpOn(s)
          ELSE s

\* ---------------------------------------------------------------------------
\* Sensor
\* ---------------------------------------------------------------------------

\* readSensor that halts the pump when the read fails
readSensor_failStop(s, outcome) ==
  IF outcome # SensorFail
  THEN [s EXCEPT !.humidity = outcome[1], !.temperature = outcome[2],
                 !.obs.sensor = "ok"]
  ELSE pumpOff([s EXCEPT !.obs.sensor = "fail"])

readSensor(s, outcome) ==
  IF outcome # SensorFail
  THEN [s EXCEPT !.humidity = outcome[1], !.temperature = outcome[2],
                 !.obs.sensor = "ok"]
  ELSE [s EXCEPT !.obs.sensor = "fail"]

\* ---------------------------------------------------------------------------
\* Display
\* ---------------------------------------------------------------------------

PadLeft(str, width) ==
  IF Len(str) >= width THEN str
  ELSE IF width - Len(str) = 1 THEN " " \o str
  ELSE IF width - Len(str) = 2 THEN "  " \o str
  ELSE "   " \o str

\* dtostrf(val, 4, 1, buf) for a value held in tenths
dtostrf(tenths) ==
  PadLeft(ToString(tenths \div 10) \o "." \o ToString(tenths % 10), 4)

Line1(s) ==
  "T:" \o dtostrf(s.temperature) \o "C H:" \o dtostrf(s.humidity) \o "%"

\* PumpOffLine that cuts the minutes off instead of rounding them
PumpOffLine_truncate(remainingMs) ==
  LET remainingSec == remainingMs \div 1000
      remainingMin == remainingSec \div 60
      remainingHours == (remainingMin + 30) \div 60
  IN IF remainingSec <= 120
     THEN "Pump off " \o ToString(remainingSec) \o "s"
     ELSE IF remainingMin > 120
          THEN "Pump off " \o ToString(remainingHours) \o "h"
          ELSE "Pump off " \o ToString(remainingMin) \o "m"

\* line 2 while stopped, from the time that remains until the next start
PumpOffLine(remainingMs) ==
  LET remainingSec == remainingMs \div 1000
      remainingMin == (remainingSec + 30) \div 60
      remainingHours == (remainingMin + 30) \div 60
  IN IF remainingSec <= 120
     THEN "Pump off " \o ToString(remainingSec) \o "s"
     ELSE IF remainingMin > 120
          THEN "Pump off " \o ToString(remainingHours) \o "h"
          ELSE "Pump off " \o ToString(remainingMin) \o "m"

RemainingOff(s) ==
  LET elapsed == Sub(s.millis, s.pumpStopTime)
  IN IF elapsed < s.pumpCycleInterval
     THEN s.pumpCycleInterval - elapsed
     ELSE 0

Line2(s) ==
  IF s.pumpRunning
  THEN LET elapsed == Sub(s.millis, s.pumpStartTime)
           remaining == IF elapsed < s.pumpOnDuration
                        THEN (s.pumpOnDuration - elapsed) \div 1000
                        ELSE 0
       IN "Pump on " \o ToString(remaining) \o "s"
  ELSE PumpOffLine(RemainingOff(s))

Backlight(s) ==
  IF s.pumpRunning THEN <<100, 0, 0>>
  ELSE IF RemainingOff(s) < GREEN_THRESHOLD THEN <<0, 100, 0>>
  ELSE <<0, 0, 0>>

initDisplay(s) ==
  [s EXCEPT !.lcd = [l1 |-> "Initializing...", l2 |-> "", rgb |-> <<0, 0, 0>>]]

updateDisplay(s0, dly) ==
  LET s == delay(s0, dly)
  IN [s EXCEPT !.lcd = [l1 |-> Line1(s), l2 |-> Line2(s), rgb |-> Backlight(s)],
               !.obs.render = "normal"]

\* ---------------------------------------------------------------------------
\* setup() and loop()
\* ---------------------------------------------------------------------------

setup(s) ==
  LET s1 == SerialPrint(s, <<"Cellar Pump Controller started">>)
      s2 == initDisplay(s1)
      s3 == applyPreset(s2, loadPresetFromEEPROM(s2))
      s4 == initRelay(s3)
  IN pumpOn(s4)

\* the index after cur, with the last preset left out of the cycle
nextPreset_short(cur) == (cur + 1) % (PRESET_COUNT - 1)

\* loop(), line 405: the index a press moves to
nextPreset(cur) == (cur + 1) % PRESET_COUNT

\* a press that leaves pumpStopTime alone
presetPress_keepStop(s, now, dly) ==
  LET next == nextPreset(s.currentPreset)
      s1 == savePresetToEEPROM(applyPreset(s, next), next)
      s2 == IF s1.pumpRunning
            THEN [digitalWrite(s1, "loop", LOW) EXCEPT !.pumpRunning = FALSE]
            ELSE s1
      s3 == [s2 EXCEPT !.overlayStartTime = now,
                       !.overlayShowing = TRUE]
      s4 == delay(s3, dly)
      s5 == [s4 EXCEPT !.lcd = [l1 |-> "Preset:",
                                l2 |-> PRESETS[s4.currentPreset].label,
                                rgb |-> <<0, 0, 100>>],
                       !.obs.render = "overlay",
                       !.obs.press = TRUE]
  IN SerialPrint(s5, <<"Preset -> ", PRESETS[s5.currentPreset].label>>)

\* a press that drives the relay pin low whether or not the pump runs
presetPress_blindWrite(s, now, dly) ==
  LET next == nextPreset(s.currentPreset)
      s1 == savePresetToEEPROM(applyPreset(s, next), next)
      s2 == [digitalWrite(s1, "loop", LOW) EXCEPT !.pumpRunning = FALSE]
      s3 == [s2 EXCEPT !.pumpStopTime = now,
                       !.overlayStartTime = now,
                       !.overlayShowing = TRUE]
      s4 == delay(s3, dly)
      s5 == [s4 EXCEPT !.lcd = [l1 |-> "Preset:",
                                l2 |-> PRESETS[s4.currentPreset].label,
                                rgb |-> <<0, 0, 100>>],
                       !.obs.render = "overlay",
                       !.obs.press = TRUE]
  IN SerialPrint(s5, <<"Preset -> ", PRESETS[s5.currentPreset].label>>)

\* loop(), lines 404-431: a confirmed press
presetPress(s, now, dly) ==
  LET next == nextPreset(s.currentPreset)
      s1 == savePresetToEEPROM(applyPreset(s, next), next)
      s2 == IF s1.pumpRunning
            THEN [digitalWrite(s1, "loop", LOW) EXCEPT !.pumpRunning = FALSE]
            ELSE s1
      s3 == [s2 EXCEPT !.pumpStopTime = now,
                       !.overlayStartTime = now,
                       !.overlayShowing = TRUE]
      s4 == delay(s3, dly)
      s5 == [s4 EXCEPT !.lcd = [l1 |-> "Preset:",
                                l2 |-> PRESETS[s4.currentPreset].label,
                                rgb |-> <<0, 0, 100>>],
                       !.obs.render = "overlay",
                       !.obs.press = TRUE]
  IN SerialPrint(s5, <<"Preset -> ", PRESETS[s5.currentPreset].label>>)

\* the button check without the restart of the debounce timer
checkButton_noRestart(s, now, reading, dly) ==
  LET s2 == IF Sub(now, s.lastDebounceTime) >= DEBOUNCE_MS
            THEN IF reading # s.stableState
                 THEN LET s1a == [s EXCEPT !.stableState = reading,
                                           !.obs.stableChanged = TRUE]
                      IN IF s1a.stableState = HIGH
                         THEN presetPress(s1a, now, dly)
                         ELSE s1a
                 ELSE s
            ELSE s
  IN [s2 EXCEPT !.lastButtonState = reading]

\* the button check firing on the stable level, not on its rising edge
checkButton_level(s, now, reading, dly) ==
  LET s1 == IF reading # s.lastButtonState
            THEN [s EXCEPT !.lastDebounceTime = now]
            ELSE s
      s2 == IF Sub(now, s1.lastDebounceTime) >= DEBOUNCE_MS
            THEN LET s1a == [s1 EXCEPT !.stableState = reading,
                                       !.obs.stableChanged =
                                          (reading # s1.stableState)]
                 IN IF s1a.stableState = HIGH
                    THEN presetPress(s1a, now, dly)
                    ELSE s1a
            ELSE s1
  IN [s2 EXCEPT !.lastButtonState = reading]

\* loop(), lines 393-436: the preset button
checkButton(s, now, reading, dly) ==
  LET s1 == IF reading # s.lastButtonState
            THEN [s EXCEPT !.lastDebounceTime = now]
            ELSE s
      s2 == IF Sub(now, s1.lastDebounceTime) >= DEBOUNCE_MS
            THEN IF reading # s1.stableState
                 THEN LET s1a == [s1 EXCEPT !.stableState = reading,
                                            !.obs.stableChanged = TRUE]
                      IN IF s1a.stableState = HIGH
                         THEN presetPress(s1a, now, dly)
                         ELSE s1a
                 ELSE s1
            ELSE s1
  IN [s2 EXCEPT !.lastButtonState = reading]

\* loop(), lines 443-448
\* sampleSensor that leaves lastSensorRead alone when the read fails, so
\* that the next iteration tries again
sampleSensor_retry(s, now, outcome) ==
  IF Sub(now, s.lastSensorRead) >= SENSOR_READ_INTERVAL
  THEN IF outcome = SensorFail
       THEN readSensor(s, outcome)
       ELSE readSensor([s EXCEPT !.lastSensorRead = now], outcome)
  ELSE s

sampleSensor(s, now, outcome) ==
  IF Sub(now, s.lastSensorRead) >= SENSOR_READ_INTERVAL
  THEN readSensor([s EXCEPT !.lastSensorRead = now], outcome)
  ELSE s

\* refreshDisplay whose overlay never expires
refreshDisplay_sticky(s, now, dly) ==
  LET s1 == s
      overlayActive == s1.overlayShowing
  IN IF ~overlayActive
        /\ Sub(now, s1.lastDisplayUpdate) >= DISPLAY_UPDATE_INTERVAL
     THEN updateDisplay([s1 EXCEPT !.lastDisplayUpdate = now], dly)
     ELSE s1

\* refreshDisplay that draws the normal screen whether an overlay shows or not
refreshDisplay_noGate(s, now, dly) ==
  LET s1 == IF s.overlayShowing
               /\ Sub(now, s.overlayStartTime) >= OVERLAY_DISPLAY_MS
            THEN [s EXCEPT !.overlayShowing = FALSE]
            ELSE s
  IN IF Sub(now, s1.lastDisplayUpdate) >= DISPLAY_UPDATE_INTERVAL
     THEN updateDisplay([s1 EXCEPT !.lastDisplayUpdate = now], dly)
     ELSE s1

\* refreshDisplay that restarts the display interval when the overlay expires
refreshDisplay_restart(s, now, dly) ==
  LET s1 == IF s.overlayShowing
               /\ Sub(now, s.overlayStartTime) >= OVERLAY_DISPLAY_MS
            THEN [s EXCEPT !.overlayShowing = FALSE, !.lastDisplayUpdate = now]
            ELSE s
      overlayActive == s1.overlayShowing
  IN IF ~overlayActive
        /\ Sub(now, s1.lastDisplayUpdate) >= DISPLAY_UPDATE_INTERVAL
     THEN updateDisplay([s1 EXCEPT !.lastDisplayUpdate = now], dly)
     ELSE s1

\* loop(), lines 451-465
refreshDisplay(s, now, dly) ==
  LET s1 == IF s.overlayShowing
               /\ Sub(now, s.overlayStartTime) >= OVERLAY_DISPLAY_MS
            THEN [s EXCEPT !.overlayShowing = FALSE]
            ELSE s
      overlayActive == s1.overlayShowing
  IN IF ~overlayActive
        /\ Sub(now, s1.lastDisplayUpdate) >= DISPLAY_UPDATE_INTERVAL
     THEN updateDisplay([s1 EXCEPT !.lastDisplayUpdate = now], dly)
     ELSE s1

loop(s, reading, outcome, dly) ==
  LET now == s.millis
      s1 == checkButton(s, now, reading, dly)
      s2 == updatePump([s1 EXCEPT !.obs.tickNow = s1.millis,
                                  !.obs.tickWasRunning = s1.pumpRunning])
      s3 == sampleSensor(s2, now, outcome)
  IN refreshDisplay(s3, now, dly)

\* a handler starts d ticks after the previous one ended
Enter(s, handler, d) ==
  [s EXCEPT !.millis = Add(@, d),
            !.obs = [NoObs EXCEPT !.handler = handler, !.now = Add(s.millis, d),
                                  !.tickNow = Add(s.millis, d)]]

\* ---------------------------------------------------------------------------
\* Specification
\* ---------------------------------------------------------------------------

Init ==
  \E magic \in InitMagicBytes, idx \in InitPresetBytes :
    LET s == PowerOn((EEPROM_ADDR_MAGIC :> magic) @@ (EEPROM_ADDR_PRESET :> idx))
    IN /\ millis = s.millis
       /\ relay = s.relay
       /\ eeprom = s.eeprom
       /\ lcd = s.lcd
       /\ pumpOnDuration = s.pumpOnDuration
       /\ pumpCycleInterval = s.pumpCycleInterval
       /\ currentPreset = s.currentPreset
       /\ lastButtonState = s.lastButtonState
       /\ lastDebounceTime = s.lastDebounceTime
       /\ overlayStartTime = s.overlayStartTime
       /\ overlayShowing = s.overlayShowing
       /\ stableState = s.stableState
       /\ pumpRunning = s.pumpRunning
       /\ pumpStartTime = s.pumpStartTime
       /\ pumpStopTime = s.pumpStopTime
       /\ lastDisplayUpdate = s.lastDisplayUpdate
       /\ lastSensorRead = s.lastSensorRead
       /\ temperature = s.temperature
       /\ humidity = s.humidity
       /\ obs = s.obs
       /\ phase = "boot"
       /\ twin = {}

\* setup() runs once after power-on
Boot ==
  /\ phase = "boot"
  /\ \E d \in Deltas : Commit(setup(Enter(Cur, "setup", d)))
  /\ phase' = "run"

Setup == Boot /\ UNCHANGED twin

\* one iteration of loop(), its inputs drawn from the given sets: the ticks
\* since the last handler, the level of BUTTON_PIN, what the sensor driver
\* answers, the ticks a delay(2) takes
LoopIn(D, R, O, L) ==
  /\ phase = "run"
  /\ \E d \in D, reading \in R, outcome \in O, dly \in L :
       Commit(loop(Enter(Cur, "loop", d), reading, outcome, dly))
  /\ UNCHANGED <<phase, twin>>

\* Spec: the sensor driver never answers; any button input
Loop == LoopIn(Deltas, BOOLEAN, {SensorFail}, LcdDelays)

\* a power cycle: the EEPROM keeps its cells, everything else starts over
PowerCycle ==
  /\ phase = "run"
  /\ Commit(PowerOn(eeprom))
  /\ phase' = "boot"

Reset == PowerCycle /\ UNCHANGED twin

Next == Setup \/ Loop \/ Reset

Spec == Init /\ [][Next]_vars

\* ---------------------------------------------------------------------------
\* LiveSpec: the controller left powered, its loop scheduled for ever
\* ---------------------------------------------------------------------------

LiveNext == Setup \/ Loop

\* a step of the running controller that finds millis() at a later time; in
\* LiveNext these are iterations of loop()
ClockAdvances == phase = "run" /\ millis' \in Clock \ {millis}

\* the Arduino core calls setup() and then loop() for ever, and millis()
\* keeps counting between the calls
LiveSpec ==
  Init /\ [][LiveNext]_vars /\ WF_vars(Setup) /\ WF_millis(ClockAdvances)

\* ---------------------------------------------------------------------------
\* SensorSpec: the button left alone, the sensor driver free to answer
\* ---------------------------------------------------------------------------

SensorLoop == LoopIn(Deltas, {LOW}, SensorOutcomes, LcdDelays)

SensorNext == Setup \/ SensorLoop \/ Reset

SensorSpec == Init /\ [][SensorNext]_vars

\* ---------------------------------------------------------------------------
\* FormatSpec: line 2 of the normal screen, with its times in milliseconds
\* ---------------------------------------------------------------------------

\* whole seconds around every limit of the three formats
FormatSeconds ==
  {0, 1, 59, 60, 90, 119, 120, 121, 149, 150, 151, 209, 210, 3600,
   7169, 7170, 7200, 7229, 7230, 8000, 9029, 9030, 12600, 16200, 86400}

\* remaining times in ms: the first, a middle and the last ms of each of
\* these seconds
FormatInputs ==
  {sec * 1000 + ms : sec \in FormatSeconds, ms \in {0, 500, 999}}

\* the pump stopped at time 0 and the clock still there, so that the cycle
\* interval is the time remaining
FormatInit ==
  \E r \in FormatInputs :
    LET s == [PowerOn((EEPROM_ADDR_MAGIC :> 255) @@ (EEPROM_ADDR_PRESET :> 255))
                EXCEPT !.pumpCycleInterval = r]
    IN /\ millis = s.millis
       /\ relay = s.relay
       /\ eeprom = s.eeprom
       /\ lcd = s.lcd
       /\ pumpOnDuration = s.pumpOnDuration
       /\ pumpCycleInterval = s.pumpCycleInterval
       /\ currentPreset = s.currentPreset
       /\ lastButtonState = s.lastButtonState
       /\ lastDebounceTime = s.lastDebounceTime
       /\ overlayStartTime = s.overlayStartTime
       /\ overlayShowing = s.overlayShowing
       /\ stableState = s.stableState
       /\ pumpRunning = s.pumpRunning
       /\ pumpStartTime = s.pumpStartTime
       /\ pumpStopTime = s.pumpStopTime
       /\ lastDisplayUpdate = s.lastDisplayUpdate
       /\ lastSensorRead = s.lastSensorRead
       /\ temperature = s.temperature
       /\ humidity = s.humidity
       /\ obs = s.obs
       /\ phase = "format"
       /\ twin = {}

\* updateDisplay(), lines 244-276: line 2 is printed
FormatLine2 ==
  /\ phase = "format"
  /\ lcd' = [lcd EXCEPT !.l2 = Line2(Cur)]
  /\ phase' = "formatted"
  /\ UNCHANGED <<millis, relay, eeprom, pumpOnDuration, pumpCycleInterval,
                 currentPreset, lastButtonState, lastDebounceTime,
                 overlayStartTime, overlayShowing, stableState, pumpRunning,
                 pumpStartTime, pumpStopTime, lastDisplayUpdate,
                 lastSensorRead, temperature, humidity, obs, twin>>

FormatSpec == FormatInit /\ [][FormatLine2]_vars

\* ---------------------------------------------------------------------------
\* CallSpec: pumpOn() and pumpOff() called in any order, at any time
\* ---------------------------------------------------------------------------

CallInitRelay ==
  /\ phase = "boot"
  /\ Commit(initRelay(Enter(Cur, "initRelay", 0)))
  /\ phase' = "call"
  /\ UNCHANGED twin

CallPumpOn ==
  /\ phase = "call"
  /\ \E d \in Deltas : Commit(pumpOn(Enter(Cur, "pumpOn", d)))
  /\ UNCHANGED <<phase, twin>>

CallPumpOff ==
  /\ phase = "call"
  /\ \E d \in Deltas : Commit(pumpOff(Enter(Cur, "pumpOff", d)))
  /\ UNCHANGED <<phase, twin>>

CallNext == CallInitRelay \/ CallPumpOn \/ CallPumpOff

CallSpec == Init /\ [][CallNext]_vars

\* ---------------------------------------------------------------------------
\* TwinSpec: the same controller, followed together with its twins
\* ---------------------------------------------------------------------------

\* what the sensor cannot be allowed to reach: the controller without the
\* cached reading and without the texts that quote it
Ctrl(s) ==
  [s EXCEPT !.temperature = 0, !.humidity = 0,
            !.lcd = [@ EXCEPT !.l1 = ""],
            !.obs = [@ EXCEPT !.sensor = "none",
                              !.log = [i \in DOMAIN @ |-> @[i][1]]]]

\* the twins: the reading a twin has cached and the answer its sensor gives.
\* The controller itself has cached <<0, 0>> and its sensor fails.
TwinCases ==
  { <<<<0, 0>>, <<702, 98>>>>,
    <<<<650, 123>>, SensorFail>>,
    <<<<650, 123>>, <<702, 98>>>> }

\* the controller that differs from s in the cached reading only
Twin(s, r) == [s EXCEPT !.humidity = r[1], !.temperature = r[2]]

\* one iteration of loop() as in Spec; beside it every twin of the controller
\* runs the same iteration on the same clock and button level under every
\* answer of the sensor driver, and twin keeps where they all ended
TwinLoop ==
  /\ phase = "run"
  /\ \E d \in Deltas, reading \in BOOLEAN, dly \in LcdDelays :
       /\ Commit(loop(Enter(Cur, "loop", d), reading, SensorFail, dly))
       /\ twin' = {Ctrl(loop(Enter(Twin(Cur, c[1]), "loop", d),
                               reading, c[2], dly)) : c \in TwinCases}
  /\ UNCHANGED phase

TwinSetup == Boot /\ twin' = {}

TwinReset == PowerCycle /\ twin' = {}

TwinNext == TwinSetup \/ TwinLoop \/ TwinReset

TwinSpec == Init /\ [][TwinNext]_vars

\* ---------------------------------------------------------------------------
\* Reading the observations of the last handler run
\* ---------------------------------------------------------------------------

\* the relay writes made by one function, in order
WritesBy(who) == SelectSeq(obs.relayWrites, LAMBDA w : w[1] = who)

\* the relay writes of one level, in order
WritesOf(level) == SelectSeq(obs.relayWrites, LAMBDA w : w[2] = level)

InLoop == phase = "run" /\ obs.handler = "loop"

\* the pump tick of the last iteration found the on duration elapsed
StopDue == Sub(obs.tickNow, pumpStartTime) >= pumpOnDuration

\* the pump tick of the last iteration found the active preset's cycle
\* interval elapsed since the last stop
StartDue ==
  Sub(obs.tickNow, pumpStopTime) >= PRESETS[currentPreset].cycleInterval

\* ---------------------------------------------------------------------------
\* Claims
\* ---------------------------------------------------------------------------

\* C1: a pump tick that finds the pump running turns it off exactly when
\* (now - startedAt) mod WRAP >= onDuration, with one LOW write to the relay,
\* running = false and stoppedAt = now; it leaves the pump on while less has
\* elapsed; a tick that finds the pump stopped does no OFF transition.
C1_TimedStop ==
  InLoop =>
    IF obs.tickWasRunning
    THEN IF StopDue
         THEN /\ ~pumpRunning
              /\ relay = LOW
              /\ pumpStopTime = obs.tickNow
              /\ WritesBy("pumpOff") = << <<"pumpOff", LOW>> >>
         ELSE /\ pumpRunning
              /\ relay = HIGH
              /\ obs.relayWrites = <<>>
    ELSE WritesBy("pumpOff") = <<>>

\* C1 witness: a pump tick found the pump running and turned it off
C1_Witness ==
  InLoop /\ obs.tickWasRunning /\ ~pumpRunning /\ pumpStopTime = obs.tickNow

\* C2: after setup() the pump is switched on only by a pump tick that finds
\* it stopped with (now - stoppedAt) mod WRAP >= cycleInterval of the active
\* preset; a tick that finds it stopped with less elapsed leaves it off, and
\* one that finds the interval elapsed turns it on.
C2_TimedStart ==
  InLoop =>
    /\ WritesOf(HIGH) = WritesBy("pumpOn")
    /\ IF obs.tickWasRunning
       THEN WritesOf(HIGH) = <<>>
       ELSE IF StartDue
            THEN /\ pumpRunning
                 /\ relay = HIGH
                 /\ pumpStartTime = obs.tickNow
                 /\ WritesOf(HIGH) = << <<"pumpOn", HIGH>> >>
            ELSE /\ ~pumpRunning
                 /\ relay = LOW
                 /\ WritesOf(HIGH) = <<>>

\* C2 witness: a pump tick turned the pump on under a preset whose cycle
\* interval is not the default one
C2_Witness ==
  /\ InLoop /\ ~obs.tickWasRunning /\ pumpRunning
  /\ pumpCycleInterval # DEFAULT_PUMP_CYCLE_INTERVAL

\* C3: a loop iteration that confirms a press ends with the pump off, the
\* relay low and stoppedAt equal to the iteration's time.
C3_PressStops ==
  (InLoop /\ obs.press) =>
    /\ ~pumpRunning
    /\ relay = LOW
    /\ pumpStopTime = obs.now

\* C3 witness: a press stopped a running pump
C3_Witness ==
  InLoop /\ obs.press /\ obs.relayWrites = << <<"loop", LOW>> >>

\* C4: once setup() has run the relay is high exactly while the pump runs,
\* and a loop iteration writes the relay pin once if it changes the running
\* flag and not at all otherwise.
C4_RelayFollowsPump ==
  [][(phase' = "run" => (relay' = HIGH <=> pumpRunning'))
     /\ (phase = "run" /\ InLoop' =>
           Len(obs'.relayWrites) =
             IF pumpRunning' # pumpRunning THEN 1 ELSE 0)]_vars

\* C4 witness: an iteration that left the pump running wrote nothing
C4_Witness == InLoop /\ pumpRunning /\ relay = HIGH /\ obs.relayWrites = <<>>

\* the preset lines the last handler run sent to the log
PresetLines == SelectSeq(obs.log, LAMBDA l : l[1] = "Preset -> ")

\* C7: every raw level change seen by an iteration restarts the debounce
\* timer (and nothing else moves it), and the stable level changes or a press
\* fires only when DEBOUNCE_MS have passed since the last raw change: while
\* the changes follow each other faster, neither happens.
C7_Debounce ==
  [][(phase = "run" /\ InLoop') =>
       /\ lastDebounceTime' =
            IF lastButtonState' # lastButtonState
            THEN obs'.now
            ELSE lastDebounceTime
       /\ (stableState' # stableState \/ obs'.press \/ obs'.stableChanged) =>
            Sub(obs'.now, lastDebounceTime') >= DEBOUNCE_MS]_vars

\* C7 witness: the raw level went high within the window of an earlier
\* change and the stable level stayed low
C7_Witness ==
  /\ InLoop
  /\ lastButtonState = HIGH /\ stableState = LOW
  /\ lastDebounceTime = obs.now
  /\ ~obs.press

\* C8: a press fires exactly in the iteration that finds the raw level high
\* and steady for DEBOUNCE_MS while the stable level is low; it moves the
\* preset once; no press fires while the stable level is already high
\* (holding) nor when it falls back to low.
C8_PressOnRisingEdge ==
  [][(phase = "run" /\ InLoop') =>
       /\ obs'.press <=>
            /\ stableState = LOW
            /\ lastButtonState' = HIGH
            /\ Sub(obs'.now, lastDebounceTime') >= DEBOUNCE_MS
       /\ obs'.press => stableState' = HIGH /\ Len(PresetLines') = 1
                         /\ currentPreset' # currentPreset
       /\ ~obs'.press => PresetLines' = <<>>
                          /\ currentPreset' = currentPreset
       /\ stableState = HIGH => ~obs'.press]_vars

\* C8 witness: the level has been held high beyond the debounce time, the
\* stable level is high and the iteration fired no press
C8_Witness ==
  /\ InLoop
  /\ lastButtonState = HIGH /\ stableState = HIGH
  /\ Sub(obs.now, lastDebounceTime) > DEBOUNCE_MS
  /\ ~obs.press

RECURSIVE Presses(_, _)
\* the preset index after k presses from index i
Presses(k, i) == IF k = 0 THEN i ELSE nextPreset(Presses(k - 1, i))

\* C9: a press moves currentPreset to (currentPreset + 1) mod PRESET_COUNT
\* and makes that preset's durations the active ones; from index 0, k presses
\* reach index k for k < PRESET_COUNT and PRESET_COUNT presses reach 0 again.
C9_PresetCycle ==
  /\ [](/\ \A k \in 0 .. (PRESET_COUNT - 1) : Presses(k, 0) = k
        /\ Presses(PRESET_COUNT, 0) = 0)
  /\ [][(phase = "run" /\ InLoop' /\ obs'.press) =>
          /\ currentPreset' = (currentPreset + 1) % PRESET_COUNT
          /\ pumpOnDuration' = PRESETS[currentPreset'].onDuration
          /\ pumpCycleInterval' = PRESETS[currentPreset'].cycleInterval]_vars

\* C9 witness: a press moved the last preset of the catalog on to index 0
C9_Witness ==
  /\ InLoop /\ obs.press /\ currentPreset = 0
  /\ pumpCycleInterval = PRESETS[0].cycleInterval

\* C10: an iteration that confirms a press leaves the valid marker and the
\* new index in the EEPROM; whenever the EEPROM holds the marker and an index
\* of the catalog, the running controller has that index and its durations
\* active, just after setup() as much as later.
C10_PresetPersisted ==
  phase = "run" =>
    /\ obs.press =>
         /\ eeprom[EEPROM_ADDR_MAGIC] = EEPROM_MAGIC
         /\ eeprom[EEPROM_ADDR_PRESET] = currentPreset
    /\ (/\ eeprom[EEPROM_ADDR_MAGIC] = EEPROM_MAGIC
        /\ eeprom[EEPROM_ADDR_PRESET] < PRESET_COUNT) =>
         /\ currentPreset = eeprom[EEPROM_ADDR_PRESET]
         /\ pumpOnDuration = PRESETS[currentPreset].onDuration
         /\ pumpCycleInterval = PRESETS[currentPreset].cycleInterval

\* C10 witness: setup() has just restored an index that no first power-on
\* finds in the EEPROM, so presses stored it before the power cycle
C10_Witness ==
  /\ phase = "run" /\ obs.handler = "setup"
  /\ currentPreset \notin InitPresetBytes
  /\ eeprom[EEPROM_ADDR_PRESET] = currentPreset

\* the last iteration's pump tick switched the pump on
PumpTurnedOn == InLoop /\ WritesBy("pumpOn") # <<>>

\* the last iteration drew the normal screen
NormalRender == InLoop /\ obs.render = "normal"

\* C5 as stated: under any button input the pump is switched on again and
\* again and the normal screen is drawn again and again.
C5_NoStarvation == ([]<>PumpTurnedOn) /\ ([]<>NormalRender)

\* C5: when the presses come to an end, the pump is switched on again and
\* again and the normal screen is drawn again and again, as long as loop()
\* keeps iterating and the clock keeps advancing.
C5_NoStarvationOncePressesEnd ==
  (<>[](~obs.press)) => (([]<>PumpTurnedOn) /\ ([]<>NormalRender))

\* C5 witness: after presses that moved the preset to one that no power-on
\* restores, an iteration switched the pump on and drew the normal screen
C5_Witness ==
  /\ PumpTurnedOn /\ NormalRender
  /\ currentPreset \notin InitPresetBytes

\* C6: whatever the sensor driver answers and whatever reading is cached,
\* an iteration on the same clock and button level ends with the same pump
\* state, relay level and writes, preset, overlay state and timers: every
\* twin of the last iteration ended where the controller itself did.  Two
\* runs that differ in the sensor outcomes only therefore agree on all of
\* these after every iteration.
C6_SensorIsolated == InLoop => twin = {Ctrl(Cur)}

\* C6 witness: the pump was switched by an iteration in which the sensor was
\* due, and all twins were switched alike
C6_Witness ==
  /\ InLoop /\ obs.sensor # "none" /\ obs.relayWrites # <<>>
  /\ twin = {Ctrl(Cur)}

\* setup() has just run
AfterSetup == phase = "run" /\ obs.handler = "setup"

\* the EEPROM does not hold the marker
Uninitialized == eeprom[EEPROM_ADDR_MAGIC] # EEPROM_MAGIC

C13_SensorFailSoft ==
  [][(phase = "run" /\ InLoop') =>
       LET due == Sub(obs'.now, lastSensorRead) >= SENSOR_READ_INTERVAL
       IN /\ (obs'.sensor # "none") <=> due
          /\ due => lastSensorRead' = obs'.now
          /\ ~due => UNCHANGED <<lastSensorRead, temperature, humidity>>
          /\ obs'.sensor = "fail" => UNCHANGED <<temperature, humidity>>
          /\ obs'.sensor = "ok" =>
                <<humidity', temperature'>> \in SensorOutcomes \ {SensorFail}
    ]_vars

\* C13 witness: a due read failed after an earlier one had succeeded; the
\* earlier reading is still cached and lastSensorRead is the iteration's time
C13_Witness ==
  /\ InLoop /\ obs.sensor = "fail"
  /\ <<humidity, temperature>> \in SensorOutcomes \ {SensorFail}
  /\ lastSensorRead = obs.now

\* what a press puts on the display for the active preset
OverlayLcd ==
  [l1 |-> "Preset:", l2 |-> PRESETS[currentPreset].label, rgb |-> <<0, 0, 100>>]

\* C14: an overlay shows after an iteration exactly if the iteration
\* confirmed a press or found an overlay showing with
\* (now - overlayStartTime) mod WRAP < OVERLAY_DISPLAY_MS; while it shows, no
\* iteration draws the normal screen and the display keeps the overlay's
\* text and colour; an iteration that ends without overlay and finds the
\* display interval elapsed draws the normal screen.
C14_OverlaySuppressesRender ==
  [][(phase = "run" /\ InLoop') =>
       /\ overlayShowing' <=>
            \/ obs'.press
            \/ /\ overlayShowing
               /\ Sub(obs'.now, overlayStartTime) < OVERLAY_DISPLAY_MS
       /\ overlayShowing' =>
            /\ obs'.render # "normal"
            /\ lcd' = OverlayLcd'
            /\ Sub(obs'.now, overlayStartTime') < OVERLAY_DISPLAY_MS
       /\ (/\ ~overlayShowing'
           /\ Sub(obs'.now, lastDisplayUpdate) >= DISPLAY_UPDATE_INTERVAL) =>
            /\ obs'.render = "normal"
            /\ lastDisplayUpdate' = obs'.now
    ]_vars

\* C14 witness: an iteration after the press found the display interval
\* elapsed and the overlay still showing, and drew nothing
C14_Witness ==
  /\ InLoop /\ overlayShowing /\ ~obs.press
  /\ Sub(obs.now, lastDisplayUpdate) >= DISPLAY_UPDATE_INTERVAL
  /\ obs.render = "none"
  /\ lcd = OverlayLcd

\* no read of the sensor has succeeded since power-on: the driver never
\* answers <<0, 0>>, so the cached reading is still the initial one
NeverRead == <<humidity, temperature>> = <<0, 0>>

\* C15 as stated: a normal render made while no read has succeeded since
\* power-on does not put formatted numbers on line 1 of the display.
C15_FallbackShown ==
  (NormalRender /\ NeverRead) => lcd.l1 # "T: 0.0C H: 0.0%"

\* C16: line 2 of a stopped pump is "Pump off <n><unit>" computed from the
\* remaining ms alone: with sec = ms / 1000 it shows sec and "s" when
\* sec <= 120, else with min = (sec + 30) / 60 it shows min and "m" when
\* min <= 120, else (min + 30) / 60 and "h", all divisions cutting off; so
\* 90000 ms give "Pump off 90s", 150000 ms "Pump off 3m" and 8000000 ms
\* "Pump off 2h".
C16_PumpOffLine ==
  phase = "formatted" =>
    LET remainingMs == pumpCycleInterval
        sec == remainingMs \div 1000
        min == (sec + 30) \div 60
        hours == (min + 30) \div 60
    IN /\ RemainingOff(Cur) = remainingMs
       /\ sec <= 120 => lcd.l2 = "Pump off " \o ToString(sec) \o "s"
       /\ (sec > 120 /\ min <= 120) =>
            lcd.l2 = "Pump off " \o ToString(min) \o "m"
       /\ (sec > 120 /\ min > 120) =>
            lcd.l2 = "Pump off " \o ToString(hours) \o "h"
       /\ remainingMs = 90000 => lcd.l2 = "Pump off 90s"
       /\ remainingMs = 150000 => lcd.l2 = "Pump off 3m"
       /\ remainingMs = 8000000 => lcd.l2 = "Pump off 2h"

\* C16 witness: 8000000 ms have been printed as hours
C16_Witness ==
  /\ phase = "formatted" /\ pumpCycleInterval = 8000000
  /\ lcd.l2 = "Pump off 2h"

\* the pump lines the last handler run sent to the log
PumpLines == SelectSeq(obs.log, LAMBDA l : l[1] \in {"Pump ON", "Pump OFF"})

\* C17 as stated: setup() and every iteration of loop() send one pump line
\* to the log if they change the pump's state, the stop forced by a press
\* included, and none if they do not.
C17_OneLinePerTransition ==
  [][(phase' = "run") =>
       Len(PumpLines') = IF pumpRunning' # pumpRunning THEN 1 ELSE 0]_vars

\* C18: pumpOn() called while the pump runs, and pumpOff() called while it
\* is stopped, leave pumpRunning, pumpStartTime, pumpStopTime and the relay
\* as they are, write nothing to the relay pin and log nothing.
C18_NoOpInTargetState ==
  [][(/\ phase = "call"
      /\ \/ obs'.handler = "pumpOn" /\ pumpRunning
         \/ obs'.handler = "pumpOff" /\ ~pumpRunning) =>
       /\ UNCHANGED <<pumpRunning, pumpStartTime, pumpStopTime, relay>>
       /\ obs'.relayWrites = <<>>
       /\ obs'.log = <<>>]_vars

\* C18 witness: pumpOff() was called on a stopped pump at a time later than
\* the stop, and the stop time stayed
C18_Witness ==
  /\ phase = "call" /\ obs.handler = "pumpOff"
  /\ ~pumpRunning /\ obs.relayWrites = <<>> /\ obs.log = <<>>
  /\ pumpStartTime # pumpStopTime
  /\ pumpStopTime # obs.now

\* the controller with its clock and every recorded time k ticks later
Shift(s, k) ==
  [s EXCEPT !.millis = Add(@, k),
            !.lastDebounceTime = Add(@, k),
            !.overlayStartTime = Add(@, k),
            !.pumpStartTime = Add(@, k),
            !.pumpStopTime = Add(@, k),
            !.lastDisplayUpdate = Add(@, k),
            !.lastSensorRead = Add(@, k),
            !.obs = [@ EXCEPT !.now = Add(@, k), !.tickNow = Add(@, k)]]

\* the shifts that are tried: one tick and half the clock's range
Shifts == {1, WRAP \div 2}

\* C19: the modular difference of a time and a reference is the true time
\* between them as long as that is below WRAP, wherever the wrap falls; and
\* an iteration of loop() depends on the clock and the recorded times through
\* such differences only: started from the same controller with the clock and
\* all references shifted, so that the wrap falls elsewhere, it takes the
\* same decisions (pump, debounce, sensor, overlay, display) and leaves the
\* same state, shifted alike.
C19_WrapTolerant ==
  /\ \A r \in Clock, e \in Clock : Sub(Add(r, e), r) = e
  /\ phase = "run" =>
       \A d \in Deltas, reading \in BOOLEAN, dly \in LcdDelays :
         LET n == loop(Enter(Cur, "loop", d), reading, SensorFail, dly)
         IN \A k \in Shifts :
              loop(Enter(Shift(Cur, k), "loop", d), reading, SensorFail, dly)
                = Shift(n, k)

\* C19 witness: the pump was switched off by a tick after the wrap, having
\* been switched on before it
C19_Witness ==
  /\ InLoop /\ obs.tickWasRunning /\ ~pumpRunning
  /\ pumpStartTime > pumpStopTime
  /\ Sub(pumpStopTime, pumpStartTime) = pumpOnDuration

\* the last iteration found an overlay showing and cleared it
OverlayCleared == overlayShowing /\ InLoop' /\ ~overlayShowing'

\* C20 as stated: the iteration that clears the overlay always draws the
\* normal screen.
C20_ExpiryRenders ==
  [][(phase = "run" /\ OverlayCleared) => obs'.render = "normal"]_vars

\* from the last normal render to the last press and from there to the
\* iteration that follows, as the controller measures them, the clock has not
\* gone all the way round
RenderNotWrapped ==
  Sub(overlayStartTime, lastDisplayUpdate) + Sub(obs'.now, overlayStartTime)
    < WRAP

\* C20: the iteration that clears the overlay draws the normal screen, as
\* long as the clock has not gone all the way round since the last normal
\* render.
C20_ExpiryRendersUnlessWrapped ==
  [][(phase = "run" /\ OverlayCleared /\ RenderNotWrapped) =>
       /\ obs'.render = "normal"
       /\ lastDisplayUpdate' = obs'.now]_vars

\* C20 witness: the overlay of a press has been cleared, OVERLAY_DISPLAY_MS
\* after the press, by an iteration that drew the normal screen
C20_Witness ==
  /\ InLoop /\ ~overlayShowing /\ obs.render = "normal"
  /\ currentPreset \notin InitPresetBytes
  /\ pumpStopTime = overlayStartTime
  /\ Sub(obs.now, overlayStartTime) = OVERLAY_DISPLAY_MS

====
